---- MODULE Spec2Model ----
(***************************************************************************)
(* Authentication / session subsystem of instagram-clone-backend:         *)
(* register_user, login, refresh_token, get_current_user, logout, the     *)
(* password recovery and reset handlers, update_user and delete_user, the *)
(* refresh-token store (TokenService on Redis) and the token codec.       *)
(* Spec takes every handler as one step; ConcurrentSpec takes login       *)
(* requests apart at their await points.                                  *)
(*                                                                         *)
(* Strings that the code builds by concatenation are sequences of string  *)
(* atoms (key = <<id, ":", jti>>, sub = <<"username:", id>>), so that     *)
(* concatenation is \o and str.replace is a filter.  A signed token is    *)
(* the record of its claims plus the state of its signature: jwt.encode   *)
(* is deterministic, so equal claims give the equal token string.         *)
(* Time is in whole seconds since the epoch.                              *)
(***************************************************************************)
EXTENDS FiniteSets, Integers, Sequences, TLC

VARIABLES
    users,        \* the "users" collection: a set of User documents
    store,        \* Redis: key -> [value, expires_at]
    setting,      \* config.Settings as loaded at start-up
    utc_offset,   \* local time minus UTC of the server process, in seconds
    now,          \* time.time() as whole seconds
    oid_count,    \* ObjectIds generated so far
    uuid_count,   \* uuid.uuid4() calls so far
    issued,       \* history: every token handed to a client
    mails,        \* background tasks that send a password-reset email
    last,         \* the response to the last request
    requests,     \* login requests being handled, each at its await point
    redis_dependency,  \* the attribute redis of api.deps.redis_dependency
    connections   \* Redis client objects created by RedisDependency.init

(* What lives in the server process between requests. *)
process == <<requests, redis_dependency, connections>>

vars == <<users, store, setting, utc_offset, now, oid_count, uuid_count,
          issued, mails, last, requests, redis_dependency, connections>>

(*************************** bounds of the model ***************************)
MaxTicks == 2          \* number of clock steps, of one minute each
StartTime == 10000     \* time.time() at start-up
MaxUuid == 1           \* uuid4() calls (logins that pass the password check)
MaxOid == 2            \* ObjectIds handed out (successful registrations)
MaxRefreshed == 1      \* access tokens handed out by refresh_token
MaxAccountTicks == 1    \* clock steps while accounts are managed
MaxLogins == 2         \* login requests handled concurrently
MaxMails == 1          \* password-reset emails scheduled

(* timedelta(minutes = 1) in seconds *)
SecondsPerMinute == 60
(* timedelta(hours = 1) in seconds *)
SecondsPerHour == 3600
UUIDs == <<"uuid-1", "uuid-2", "uuid-3", "uuid-4">>
ObjectIds == <<"oid-1", "oid-2", "oid-3", "oid-4">>
Passwords == {"Passw0rd-1", "Passw0rd-2"}
LoginUsernames == {"alice", "bob", "unknown"}

(* A value that is None in Python, for string-typed fields. *)
None == "None"
(* A missing key of a dict whose value would be a concatenated string. *)
NoStr == <<>>

(* Request bodies of register_user (UserCreate). *)
UserCreateInputs ==
    { [username |-> "alice", email |-> "alice@example.com",
       password |-> "Passw0rd-1", given_name |-> "Alice",
       middle_name |-> "Maria", family_name |-> "Doe"],
      [username |-> "bob", email |-> "bob@example.com",
       password |-> "Passw0rd-2", given_name |-> "Bob",
       middle_name |-> None, family_name |-> "Roe"] }

(******************************* settings **********************************)
(* The settings object as the handlers read it: setting.SERVER_HOST,       *)
(* setting.ACCESS_TOKEN_EXPIRE_MINUTES, setting.REFRESH_TOKEN_EXPIRE_MINUTES *)
(* and setting.refresh_token_expire_seconds.  core/config.py declares the  *)
(* fields in lower case and has no field for the last one; the model takes *)
(* the attributes the call sites read as the loaded configuration.         *)
SERVER_HOST == "https://server"
AuthPath == <<SERVER_HOST, "/authentication/login">>

Settings(access, refresh, seconds) ==
    [ACCESS_TOKEN_EXPIRE_MINUTES |-> access,
     REFRESH_TOKEN_EXPIRE_MINUTES |-> refresh,
     refresh_token_expire_seconds |-> seconds,
     EMAIL_RESET_TOKEN_EXPIRE_HOURS |-> 1]

(* The deployments explored: the settings loaded from the environment and   *)
(* the time zone of the server process (seconds east of UTC).               *)
Deployments ==
    { [setting |-> Settings(1, 2, 2 * SecondsPerMinute), utc_offset |-> 0],
      [setting |-> Settings(1, 1, SecondsPerMinute), utc_offset |-> 0],
      [setting |-> Settings(1, 0, 0), utc_offset |-> 0],
      [setting |-> Settings(1, 2, 2 * SecondsPerMinute), utc_offset |-> 3600] }

(******************************* time **************************************)
(* timedelta(minutes = m), in seconds; NoDelta is expires_delta = None. *)
timedelta_minutes(m) == [is_none |-> FALSE, seconds |-> m * SecondsPerMinute]
NoDelta == [is_none |-> TRUE, seconds |-> 0]

(* bool(expires_delta): None and timedelta(0) are both false. *)
Truthy(delta) == ~delta.is_none /\ delta.seconds # 0

(* int((datetime.utcnow() + delta).timestamp()): utcnow() is a naive      *)
(* datetime holding UTC wall-clock time, and timestamp() reads a naive    *)
(* datetime as local time, so the result is shifted by the UTC offset.    *)
utcnow_plus_timestamp(seconds) == (now + seconds) - utc_offset

(***************************** password hasher *****************************)
get_password_hash(password) == [scheme |-> "bcrypt", secret |-> password]

(* A verifier that accepts every password for a well-formed hash. *)
verify_password_accepting(hashed_password, plain_password) ==
    IF hashed_password.scheme # "bcrypt" THEN "raise" ELSE "true"

(* pwd_cxt.verify: "raise" stands for passlib's UnknownHashError. *)
verify_password(hashed_password, plain_password) ==
    IF hashed_password.scheme # "bcrypt" THEN "raise"
    ELSE IF hashed_password.secret = plain_password THEN "true"
    ELSE "false"

(******************************* user store ********************************)
NoUser == [id |-> None]
(* A query that ended in an exception instead of a document. *)
DbRaise == [id |-> "raise"]

find_one_by_username(username) ==
    IF \E u \in users : u.username = username
    THEN CHOOSE u \in users : u.username = username
    ELSE NoUser

(******************************* token codec *******************************)
NoToken == [sig |-> "none"]

(* jwt.encode(claims, SECRET_KEY, ALGORITHM): deterministic in the claims. *)
jwt_encode(claims) == [sig |-> "valid", claims |-> claims]

(* create_access_token: payload.update({'exp': ...}) changes the caller's   *)
(* dict, so the updated payload is part of the result.                      *)
create_access_token(payload, expires_delta) ==
    LET expire == IF Truthy(expires_delta)
                  THEN utcnow_plus_timestamp(expires_delta.seconds)
                  ELSE utcnow_plus_timestamp(
                           timedelta_minutes(
                               setting.ACCESS_TOKEN_EXPIRE_MINUTES).seconds)
        updated == [payload EXCEPT !.exp = expire]
    IN  [encoded_jwt |-> jwt_encode(updated), payload |-> updated]

create_refresh_token(payload) ==
    create_access_token(
        payload, timedelta_minutes(setting.REFRESH_TOKEN_EXPIRE_MINUTES))

(* jose.jwt.decode(token, key, algorithms, audience, issuer): signature,   *)
(* then nbf, exp, aud, iss in this order.  kind is "ok", or the exception: *)
(* "ExpiredSignatureError", "JWTClaimsError", "JWTError".                  *)
jwt_decode(token) ==
    IF token.sig # "valid" THEN [kind |-> "JWTError"]
    ELSE LET c == token.claims IN
         IF c.nbf > now THEN [kind |-> "JWTClaimsError"]
         ELSE IF c.exp < now THEN [kind |-> "ExpiredSignatureError"]
         \* a token without aud passes the audience check
         ELSE IF "aud" \in DOMAIN c /\ c.aud # AuthPath
         THEN [kind |-> "JWTClaimsError"]
         \* a token without iss fails the issuer check
         ELSE IF "iss" \notin DOMAIN c \/ c.iss # SERVER_HOST
         THEN [kind |-> "JWTClaimsError"]
         ELSE [kind |-> "ok", payload |-> c]

(* TokenPayload built from the payload: TRUE iff pydantic accepts it. name, *)
(* nickname and preferred_username are required fields of                  *)
(* PublicClaimsToken; sub must match sub_regex; aud is const.              *)
TokenPayload_valid(payload) ==
    /\ Len(payload.sub) = 2
    /\ payload.sub[1] = "username:"
    /\ \E i \in 1..Len(ObjectIds) : payload.sub[2] = ObjectIds[i]
    /\ payload.aud = AuthPath
    /\ payload.exp > 1 /\ payload.nbf > 1 /\ payload.iat > 1
    /\ payload.name # NoStr
    /\ payload.nickname # None
    /\ payload.preferred_username # None
    /\ payload.given_name # None
    /\ payload.family_name # None
    /\ payload.email # None

(**************************** refresh-token store **************************)
NoEntries == [k \in {} |-> NoToken]

(* The aioredis exceptions that handle_redis_exceptions names. *)
RedisErrors ==
    {"AuthenticationError", "ConnectionError", "DataError",
     "NoPermissionError", "TimeoutError"}

(* issubclass(exc, RedisError): the five above, and the ResponseError of   *)
(* an error reply.                                                         *)
IsRedisError(exc) == exc \in RedisErrors \cup {"ResponseError"}

(* redis.setex(key, seconds, value).  outcome is what the backend does:    *)
(* "ok", or the exception of the client.  After a TimeoutError the client  *)
(* has given up but the server still applies the write; after the others   *)
(* nothing is written.  Redis rejects a non-positive expire time with an   *)
(* error reply.                                                            *)
redis_setex(key, seconds, value, outcome) ==
    LET written == [k \in DOMAIN store \cup {key} |->
                      IF k = key
                      THEN [value |-> value, expires_at |-> now + seconds]
                      ELSE store[k]]
    IN  IF seconds <= 0 THEN [raised |-> "ResponseError", store |-> store]
        ELSE IF outcome = "ok" THEN [raised |-> None, store |-> written]
        ELSE IF outcome = "TimeoutError"
        THEN [raised |-> outcome, store |-> written]
        ELSE [raised |-> outcome, store |-> store]

(* redis.get(key): an expired key is gone; the store is left as it is. *)
redis_get(key, outcome) ==
    IF outcome # "ok"
    THEN [raised |-> outcome, value |-> NoToken, store |-> store]
    ELSE IF key \in DOMAIN store /\ now < store[key].expires_at
         THEN [raised |-> None, value |-> store[key].value, store |-> store]
         ELSE [raised |-> None, value |-> NoToken, store |-> store]

(* A create_token that reports success whatever the backend did. *)
TokenService_create_token_unchecked(token, outcome) ==
    LET r == redis_setex(token.key, setting.refresh_token_expire_seconds,
                         token.token, outcome)
    IN  [inserted |-> TRUE, raised |-> FALSE, store |-> r.store]

(* TokenService.create_token: except RedisError leaves inserted = False;   *)
(* handle_redis_exceptions turns the exceptions it names into None; any    *)
(* other exception reaches the caller.                                     *)
TokenService_create_token(token, outcome) ==
    LET r == redis_setex(token.key, setting.refresh_token_expire_seconds,
                         token.token, outcome)
    IN  IF r.raised = None
        THEN [inserted |-> TRUE, raised |-> FALSE, store |-> r.store]
        ELSE IF IsRedisError(r.raised) \/ r.raised \in RedisErrors
        THEN [inserted |-> FALSE, raised |-> FALSE, store |-> r.store]
        ELSE [inserted |-> FALSE, raised |-> TRUE, store |-> r.store]

(* A get_token without the except clause and without the decorator. *)
TokenService_get_token_unguarded(key, outcome) ==
    LET r == redis_get(key, outcome)
    IN  [value |-> r.value, raised |-> r.raised # None, store |-> r.store]

(* A get_token that takes the record out of the store (GETDEL). *)
TokenService_get_token_once(key, outcome) ==
    LET r == redis_get(key, outcome)
    IN  [value |-> r.value, raised |-> FALSE,
         store |-> [k \in DOMAIN store \ {key} |-> store[k]]]

(* TokenService.get_token: except RedisError gives None; the same for the  *)
(* exceptions handle_redis_exceptions names; any other reaches the caller. *)
TokenService_get_token(key, outcome) ==
    LET r == redis_get(key, outcome)
    IN  IF r.raised = None
        THEN [value |-> r.value, raised |-> FALSE, store |-> r.store]
        ELSE IF IsRedisError(r.raised) \/ r.raised \in RedisErrors
        THEN [value |-> NoToken, raised |-> FALSE, store |-> r.store]
        ELSE [value |-> NoToken, raised |-> TRUE, store |-> r.store]

(******************************** responses ********************************)
(* What a handler hands back: the HTTP response, and the state it leaves.  *)
Response(op, status, detail) ==
    [op |-> op, status |-> status, detail |-> detail,
     access_token |-> NoToken, token_type |-> None,
     refresh_token |-> NoToken, user |-> NoUser,
     users |-> users, store |-> store, issued |-> issued,
     uuid_count |-> uuid_count, oid_count |-> oid_count, mails |-> mails]

(* An exception no handler catches: the framework answers 500. *)
Unhandled(op) == Response(op, 500, "Internal Server Error")

(* HTTPException(403, "Could not validate credentials") *)
credentials_exception(op) == Response(op, 403, "Could not validate credentials")

ClaimsDetail ==
    "Authorization claim is incorrect, please check audience and issuer"

(* The part of a handler's result that the client observes. *)
Observed(r) ==
    [status |-> r.status, detail |-> r.detail,
     access_token |-> r.access_token, token_type |-> r.token_type,
     refresh_token |-> r.refresh_token]

(********************************** login **********************************)
DbOutcomes == {"ok", "NetworkTimeout"}
(* What the key-value backend does to one command of a request. *)
KvOutcomes == {"ok", "ConnectionError", "TimeoutError"}

(* A uuid4 that returns the same value at every call. *)
uuid4_constant(n) == UUIDs[1]

(* uuid.uuid4(): n calls were made before this one. *)
uuid4(n) == UUIDs[n + 1]

(* UsernameFilter.filter: not wrapped by handle_nosql_exceptions, so a     *)
(* backend exception leaves it as an exception ("raise").                  *)
UsernameFilter_filter(username, db) ==
    IF db # "ok" THEN DbRaise ELSE find_one_by_username(username)

(* The claims dict built by login, lines 65-81. *)
login_payload(found_user, jti) ==
    LET payload ==
            [iss |-> SERVER_HOST,
             sub |-> <<"username:">> \o <<found_user.id>>,
             aud |-> <<SERVER_HOST>> \o <<"/authentication/login">>,
             exp |-> now + setting.ACCESS_TOKEN_EXPIRE_MINUTES,
             nbf |-> now - 1, iat |-> now, jti |-> jti,
             given_name |-> found_user.given_name,
             family_name |-> found_user.family_name,
             nickname |-> found_user.given_name,
             preferred_username |-> found_user.username,
             email |-> found_user.email,
             middle_name |-> None, name |-> NoStr]
    IN  IF found_user.middle_name # None /\ found_user.middle_name # ""
        THEN [payload EXCEPT
                !.middle_name = found_user.middle_name,
                !.name = <<found_user.given_name, " ",
                           found_user.middle_name, " ",
                           found_user.family_name>>]
        ELSE payload

(* A login that files the refresh token under the username, not the id. *)
login_key_by_username(found_user, jti) ==
    <<found_user.username>> \o <<":">> \o <<jti>>

(* name = str(found_user.id) + ':' + str(jti) *)
login_key(found_user, jti) == <<found_user.id>> \o <<":">> \o <<jti>>

(* One entry of the history of tokens handed to clients: session is the    *)
(* number of the login the token descends from, at the time it was made.   *)
Issued(origin, token, session) ==
    [origin |-> origin, token |-> token, session |-> session, at |-> now]

(* Lines 82-85: both tokens are encoded from the one payload dict, which  *)
(* create_access_token updates in place.                                   *)
login_tokens(found_user, jti) ==
    LET payload == login_payload(found_user, jti)
        access == create_access_token(payload, NoDelta)
        refresh == create_refresh_token(access.payload)
    IN  [access |-> access, refresh |-> refresh]

login(username, password, db, put) ==
    LET found_user == UsernameFilter_filter(username, db) IN
    IF found_user = DbRaise THEN Unhandled("login")
    ELSE IF found_user = NoUser
    THEN Response("login", 404, "Invalid credentials")
    ELSE LET verified == verify_password(found_user.password, password) IN
    IF verified = "raise" THEN Unhandled("login")
    ELSE IF verified = "false"
    THEN Response("login", 404, "Incorrect password")
    ELSE
    LET jti == uuid4(uuid_count)
        encoded == login_tokens(found_user, jti)
        access == encoded.access
        refresh == encoded.refresh
        name == login_key(found_user, jti)
        token == [key |-> name, token |-> refresh.encoded_jwt]
        created == TokenService_create_token(token, put)
        token_set == created.inserted
        returned ==
            {Issued("login_access", access.encoded_jwt, uuid_count + 1),
             Issued("login_refresh", refresh.encoded_jwt, uuid_count + 1)}
    IN  IF created.raised THEN Unhandled("login")
        ELSE IF ~token_set
        THEN [Response("login", 400,
                       "Could not insert data in Authorization database")
                EXCEPT !.store = created.store,
                       !.uuid_count = uuid_count + 1]
        ELSE [Response("login", 200, "")
                EXCEPT !.access_token = access.encoded_jwt,
                       !.token_type = "bearer",
                       !.refresh_token = refresh.encoded_jwt,
                       !.store = created.store,
                       !.issued = issued \cup returned,
                       !.uuid_count = uuid_count + 1]

(***************************** refresh_token ********************************)
NonePayload == [sub |-> NoStr]

(* api.deps.decode_token: the payload, or None on every jose exception. *)
decode_token(token) ==
    LET decoded == jwt_decode(token) IN
    IF decoded.kind = "ok" THEN decoded.payload ELSE NonePayload

(* A replace that removes nothing. *)
str_replace_nothing(str, old) == str

(* str.replace(old, ''): every occurrence of old is removed. *)
str_replace(str, old) == SelectSeq(str, LAMBDA part : part # old)

(* Lines 126-128: the key refresh_token looks the presented token up at. *)
refresh_key(current_payload) ==
    LET current_username == str_replace(current_payload.sub, "username:")
        current_jti == current_payload.jti
    IN  current_username \o <<":">> \o <<current_jti>>

(* datetime.fromtimestamp(exp) < datetime.now(): exp is whole seconds and  *)
(* now() carries microseconds; frac says that they are not zero.           *)
exp_before_now(exp, frac) == exp < now \/ (exp = now /\ frac)

refresh_token(token, get, frac) ==
    LET current_payload == decode_token(token) IN
    \* None['sub'] raises TypeError, outside every try block
    IF current_payload = NonePayload THEN Unhandled("refresh_token")
    ELSE
    LET current_jti == current_payload.jti
        key == refresh_key(current_payload)
        fetched == TokenService_get_token(key, get)
        value == fetched.value
        Answer(status, detail) ==
            [Response("refresh_token", status, detail)
               EXCEPT !.store = fetched.store]
        credentials == Answer(403, "Could not validate credentials")
    IN
    IF fetched.raised THEN Unhandled("refresh_token")
    ELSE IF value = NoToken THEN credentials
    ELSE
    LET decoded == jwt_decode(value) IN
    IF decoded.kind = "ExpiredSignatureError"
    THEN Answer(401, "Token expired")
    ELSE IF decoded.kind = "JWTClaimsError"
    THEN Answer(401, ClaimsDetail)
    ELSE IF decoded.kind = "JWTError"
    THEN credentials
    ELSE
    LET payload == decoded.payload IN
    IF ~TokenPayload_valid(payload)
    THEN credentials
    ELSE IF current_jti # payload.jti
    THEN credentials
    ELSE IF payload.preferred_username = None
    THEN credentials
    ELSE IF exp_before_now(payload.exp, frac)
    THEN Answer(401, "Token expired")
    ELSE
    LET new_token == create_access_token(payload, NoDelta).encoded_jwt
        session == (CHOOSE e \in issued : e.token = value).session
    IN  [Answer(201, "")
           EXCEPT !.access_token = new_token,
                  !.issued = issued \cup
                      {Issued("refresh_access", new_token, session)}]

(**************************** get_current_user ******************************)
(* UserService.read_user_by_username under handle_nosql_exceptions: the    *)
(* listed pymongo exceptions are printed and the call returns None.        *)
read_user_by_username(username, db) ==
    IF db # "ok" THEN NoUser ELSE find_one_by_username(username)

get_current_user(token, db, frac) ==
    LET decoded == jwt_decode(token) IN
    IF decoded.kind = "ExpiredSignatureError"
    THEN Response("get_current_user", 401, "Token expired")
    ELSE IF decoded.kind = "JWTClaimsError"
    THEN Response("get_current_user", 401, ClaimsDetail)
    ELSE IF decoded.kind = "JWTError"
    THEN credentials_exception("get_current_user")
    ELSE
    LET payload == decoded.payload IN
    IF ~TokenPayload_valid(payload)
    THEN credentials_exception("get_current_user")
    ELSE IF payload.preferred_username = None
    THEN credentials_exception("get_current_user")
    ELSE IF exp_before_now(payload.exp, frac)
    THEN Response("get_current_user", 401, "Token expired")
    ELSE
    LET user == read_user_by_username(payload.preferred_username, db) IN
    IF user = NoUser THEN credentials_exception("get_current_user")
    ELSE [Response("get_current_user", 200, "")
            EXCEPT !.user = [id |-> user.id, username |-> user.username,
                             email |-> user.email]]

(****************************** password reset ****************************)
find_one_by_email(email) ==
    IF \E u \in users : u.email = email
    THEN CHOOSE u \in users : u.email = email
    ELSE NoUser

(* UserService.read_user_by_email under handle_nosql_exceptions. *)
read_user_by_email(email, db) ==
    IF db # "ok" THEN NoUser ELSE find_one_by_email(email)

(* generate_password_reset_token: exp = (utcnow() + delta).timestamp(),    *)
(* nbf = utcnow(), which jwt.encode converts with timegm, and sub = email. *)
generate_password_reset_token(email) ==
    jwt_encode(
        [exp |-> utcnow_plus_timestamp(
                     setting.EMAIL_RESET_TOKEN_EXPIRE_HOURS * SecondsPerHour),
         nbf |-> now, sub |-> email])

(* A verifier that reads the claims without validating them. *)
verify_password_reset_token_unverified(token) ==
    IF token.sig \notin {"valid", "bad"}
    THEN [email |-> None, raised |-> FALSE]
    ELSE IF "email" \notin DOMAIN token.claims
    THEN [email |-> None, raised |-> TRUE]
    ELSE [email |-> token.claims.email, raised |-> FALSE]

(* verify_password_reset_token: jwt.decode with audience and issuer; None  *)
(* on every JWTError; decoded_token["email"] raises KeyError when the      *)
(* claim is missing.                                                       *)
verify_password_reset_token(token) ==
    LET decoded == jwt_decode(token) IN
    IF decoded.kind # "ok" THEN [email |-> None, raised |-> FALSE]
    ELSE IF "email" \notin DOMAIN decoded.payload
    THEN [email |-> None, raised |-> TRUE]
    ELSE [email |-> decoded.payload.email, raised |-> FALSE]

(* AuthService.update_password under handle_nosql_exceptions: a listed     *)
(* pymongo exception gives None; without a document user_to_update.update  *)
(* raises AttributeError, which the decorator does not name.               *)
AuthService_update_password(email, password, db) ==
    IF db # "ok" THEN [user |-> NoUser, raised |-> FALSE, users |-> users]
    ELSE
    LET user_to_update == find_one_by_email(email) IN
    IF user_to_update = NoUser
    THEN [user |-> NoUser, raised |-> TRUE, users |-> users]
    ELSE
    LET hashed_password == get_password_hash(password)
        updated == [user_to_update EXCEPT !.password = hashed_password]
    IN  [user |-> updated, raised |-> FALSE,
         users |-> (users \ {user_to_update}) \cup {updated}]

reset_password(token, password, db) ==
    LET verified == verify_password_reset_token(token) IN
    IF verified.raised THEN Unhandled("reset_password")
    ELSE IF verified.email = None
    THEN Response("reset_password", 400, "Invalid token")
    ELSE
    LET found_user == AuthService_update_password(verified.email, password, db)
    IN  IF found_user.raised THEN Unhandled("reset_password")
        ELSE IF found_user.user = NoUser
        THEN Response("reset_password", 404, "User not found in the system.")
        ELSE [Response("reset_password", 200, "Password updated successfully")
                EXCEPT !.users = found_user.users]

(* A task addressed to the username instead of the email. *)
reset_email_task_to_username(found_user, token) ==
    [email_to |-> found_user.username, email |-> found_user.email,
     token |-> token, state |-> "scheduled"]

(* background_tasks.add_task(send_reset_password_email, email_to=...,      *)
(* email=found_user.username, token=...)                                   *)
reset_email_task(found_user, token) ==
    [email_to |-> found_user.email, email |-> found_user.username,
     token |-> token, state |-> "scheduled"]

(* Lines 192-198 and 228-234, common to both recovery handlers. *)
recover_password(op, found_user, asked) ==
    IF found_user = NoUser
    THEN [Response(op, 404, "The user does not exist in the system.")
            EXCEPT !.user = [value |-> asked]]
    ELSE
    LET password_reset_token == generate_password_reset_token(found_user.email)
    IN  [Response(op, 200, "Password recovery email sent")
           EXCEPT !.mails =
               Append(mails, reset_email_task(found_user,
                                              password_reset_token))]

recover_password_by_email(email, db) ==
    recover_password("recover_password_by_email",
                     read_user_by_email(email, db), email)

recover_password_by_username(username, db) ==
    recover_password("recover_password_by_username",
                     read_user_by_username(username, db), username)

(* send_reset_password_email run as a background task, after the response: *)
(* the task list with task i done, delivered or not.                        *)
send_reset_password_email(i, delivered) ==
    [mails EXCEPT ![i].state = IF delivered THEN "sent" ELSE "failed"]

(******************************* delete_user *******************************)
(* UserService.delete_user under handle_nosql_exceptions: None on a listed *)
(* pymongo exception.                                                      *)
UserService_delete_user(user_id, db) ==
    IF db # "ok" THEN [data |-> None, users |-> users]
    ELSE IF \E u \in users : u.id = user_id
    THEN [data |-> "true", users |-> {u \in users : u.id # user_id}]
    ELSE [data |-> "false", users |-> users]

(* delete_user: Depends(get_current_user) answers first; data['ok'] on     *)
(* None raises TypeError.                                                  *)
delete_user(token, user_id, auth_db, db, frac) ==
    LET current_user == get_current_user(token, auth_db, frac) IN
    IF current_user.status # 200
    THEN [current_user EXCEPT !.op = "delete_user"]
    ELSE
    LET deleted == UserService_delete_user(user_id, db) IN
    IF deleted.data = None THEN Unhandled("delete_user")
    ELSE [Response("delete_user", 204, deleted.data)
            EXCEPT !.users = deleted.users]

(********************************** logout *********************************)
(* A logout that also deletes the refresh-token records of the user. *)
logout_revoking(token, db, frac) ==
    LET current_user == get_current_user(token, db, frac) IN
    IF current_user.status # 200
    THEN [current_user EXCEPT !.op = "logout"]
    ELSE [Response("logout", 302, "/")
            EXCEPT !.user = current_user.user,
                   !.store = [k \in {k \in DOMAIN store :
                                        k[1] # current_user.user.id}
                                |-> store[k]]]

(* logout: Depends(get_current_user) answers first; then a redirect to "/" *)
(* that deletes the cookie 'bearer' of the client.                         *)
logout(token, db, frac) ==
    LET current_user == get_current_user(token, db, frac) IN
    IF current_user.status # 200
    THEN [current_user EXCEPT !.op = "logout"]
    ELSE [Response("logout", 302, "/") EXCEPT !.user = current_user.user]

(****************************** register_user ******************************)
(* User.hash_password, the before_event(Insert) action. *)
hash_password(document) ==
    [document EXCEPT !.password = get_password_hash(document.password)]

(* UserService.create_user: the inserted document, or the name of the      *)
(* unique index that a DuplicateKeyError reports.                          *)
create_user(user) ==
    IF \E u \in users : u.username = user.username
    THEN [key |-> "username", document |-> NoUser]
    ELSE IF \E u \in users : u.email = user.email
    THEN [key |-> "email", document |-> NoUser]
    ELSE [key |-> None,
          document |-> hash_password(
              [id |-> ObjectIds[oid_count + 1], username |-> user.username,
               email |-> user.email, password |-> user.password,
               given_name |-> user.given_name,
               middle_name |-> user.middle_name,
               family_name |-> user.family_name])]

(* register_user: a str from create_user is the name of the duplicated key, *)
(* reported in the detail f'User with {key} {value} already exists in the   *)
(* system.'; key and value are kept beside the fixed part of the text.      *)
register_user(user) ==
    LET new_user == create_user(user) IN
    IF new_user.key # None
    THEN [Response("register_user", 400, "User already exists in the system.")
            EXCEPT !.user = [key |-> new_user.key,
                             value |-> IF new_user.key = "email"
                                       THEN user.email ELSE user.username]]
    ELSE [Response("register_user", 201, "")
            EXCEPT !.user = [username |-> new_user.document.username,
                             email |-> new_user.document.email],
                   !.users = users \cup {new_user.document},
                   !.oid_count = oid_count + 1]

(**************************** requests of clients **************************)
(* Tokens a client can present: the ones it was handed, and those with a   *)
(* broken signature, a foreign audience or issuer, or no JWT at all.       *)
Garbage == [sig |-> "malformed"]
Tampered(t) == [t EXCEPT !.sig = "bad"]
WrongAud(t) ==
    [t EXCEPT !.claims.aud = <<"https://other", "/authentication/login">>]
WrongIss(t) == [t EXCEPT !.claims.iss = "https://other"]

ClientTokens == {e.token : e \in issued}

Variant(t, how) ==
    CASE how = "as issued" -> t
      [] how = "tampered" -> Tampered(t)
      [] how = "wrong aud" -> WrongAud(t)
      [] how = "wrong iss" -> WrongIss(t)

Variants == {"as issued", "tampered", "wrong aud", "wrong iss"}

(* The tokens requests are made with: no JWT at all, every token handed    *)
(* out, and every variant of the refresh tokens handed out by login.       *)
Presentable ==
    {Garbage} \cup ClientTokens
        \cup {Variant(e.token, how) :
                 e \in {i \in issued : i.origin = "login_refresh"},
                 how \in Variants}

(* datetime.now().microsecond # 0.  The reading decides a comparison only  *)
(* in the very second in which some token expires; in every other second   *)
(* one reading stands for both.                                            *)
Micros ==
    IF \/ \E e \in issued : e.token.claims.exp = now
       \/ \E k \in DOMAIN store : store[k].value.claims.exp = now
    THEN BOOLEAN
    ELSE {FALSE}

(* What the two backends do during one login: when the user lookup fails   *)
(* the key-value store is not reached.                                     *)
LoginBackends ==
    {[db |-> "ok", put |-> put] : put \in KvOutcomes}
        \cup {[db |-> db, put |-> "ok"] : db \in DbOutcomes}

Last(r) ==
    [op |-> r.op, status |-> r.status,
     detail |-> r.detail, access_token |-> r.access_token,
     token_type |-> r.token_type, refresh_token |-> r.refresh_token,
     user |-> r.user]

(********************************* actions *********************************)
Init ==
    /\ users = {}
    /\ store = NoEntries
    /\ \E d \in Deployments :
           setting = d.setting /\ utc_offset = d.utc_offset
    /\ now = StartTime
    /\ oid_count = 0
    /\ uuid_count = 0
    /\ issued = {}
    /\ mails = <<>>
    /\ last = Last(Response("start", 0, ""))
    /\ requests = <<>>
    /\ redis_dependency = None
    /\ connections = 0

Tick ==
    /\ now + SecondsPerMinute <= StartTime + MaxTicks * SecondsPerMinute
    /\ now' = now + SecondsPerMinute
    /\ UNCHANGED <<users, store, setting, utc_offset, oid_count, uuid_count,
                   issued, mails, last, process>>

(* The state a handler leaves, and its response. *)
Apply(r) ==
    /\ users' = r.users
    /\ store' = r.store
    /\ issued' = r.issued
    /\ mails' = r.mails
    /\ oid_count' = r.oid_count
    /\ uuid_count' = r.uuid_count
    /\ last' = Last(r)
    /\ UNCHANGED <<setting, utc_offset, now, process>>

RegisterUser ==
    \E user \in UserCreateInputs :
        \E r \in {register_user(user)} :
            oid_count < MaxOid /\ Apply(r)

Login ==
    \E username \in LoginUsernames, password \in Passwords,
       backend \in LoginBackends :
        \E r \in {login(username, password, backend.db, backend.put)} :
            r.uuid_count <= MaxUuid /\ Apply(r)

RefreshToken ==
    \E token \in Presentable, get \in {"ok", "ConnectionError"},
       frac \in Micros :
        \E r \in {refresh_token(token, get, frac)} :
            /\ Cardinality({e \in r.issued : e.origin = "refresh_access"})
                   <= MaxRefreshed
            /\ Apply(r)

GetCurrentUser ==
    \E token \in Presentable, db \in DbOutcomes, frac \in Micros :
        \E r \in {get_current_user(token, db, frac)} : Apply(r)

Logout ==
    \E token \in Presentable, db \in DbOutcomes, frac \in Micros :
        \E r \in {logout(token, db, frac)} : Apply(r)

Next ==
    \/ Tick
    \/ RegisterUser
    \/ Login
    \/ RefreshToken
    \/ GetCurrentUser
    \/ Logout

Spec == Init /\ [][Next]_vars

(************************ password reset and accounts ***********************)
RecoveryEmails == {"alice@example.com", "bob@example.com", "nobody@example.com"}

(* The tokens reset_password is called with: no JWT at all, the tokens of   *)
(* the reset emails, as sent and with a broken signature, and the session   *)
(* tokens handed out.                                                       *)
ResetPresentable ==
    {Garbage} \cup ClientTokens
        \cup {mails[i].token : i \in DOMAIN mails}
        \cup {Tampered(mails[i].token) : i \in DOMAIN mails}

(* What the user store does during the two lookups of one delete_user. *)
DeleteBackends ==
    {[auth_db |-> "ok", db |-> db] : db \in DbOutcomes}
        \cup {[auth_db |-> db, db |-> "ok"] : db \in DbOutcomes}

RecoverPasswordByEmail ==
    \E email \in RecoveryEmails, db \in DbOutcomes :
        \E r \in {recover_password_by_email(email, db)} :
            Len(r.mails) <= MaxMails /\ Apply(r)

RecoverPasswordByUsername ==
    \E username \in LoginUsernames, db \in DbOutcomes :
        \E r \in {recover_password_by_username(username, db)} :
            Len(r.mails) <= MaxMails /\ Apply(r)

SendResetPasswordEmail ==
    \E i \in DOMAIN mails, delivered \in BOOLEAN :
        /\ mails[i].state = "scheduled"
        /\ mails' = send_reset_password_email(i, delivered)
        /\ UNCHANGED <<users, store, setting, utc_offset, now, oid_count,
                       uuid_count, issued, last, process>>

ResetPassword ==
    \E token \in ResetPresentable, password \in Passwords,
       db \in DbOutcomes :
        \E r \in {reset_password(token, password, db)} : Apply(r)

DeleteUser ==
    \E token \in {Garbage} \cup ClientTokens,
       user_id \in {ObjectIds[i] : i \in 1..MaxOid},
       backend \in DeleteBackends, frac \in Micros :
        \E r \in {delete_user(token, user_id, backend.auth_db, backend.db,
                              frac)} : Apply(r)

(* A login while both backends answer. *)
AccountLogin ==
    \E username \in LoginUsernames, password \in Passwords :
        \E r \in {login(username, password, "ok", "ok")} :
            r.uuid_count <= MaxUuid /\ Apply(r)

(* Start-up with one configuration of the lifetimes, in either time zone. *)
AccountInit ==
    /\ Init
    /\ setting = Settings(1, 2, 2 * SecondsPerMinute)

AccountTick ==
    /\ now + SecondsPerMinute <= StartTime + MaxAccountTicks * SecondsPerMinute
    /\ now' = now + SecondsPerMinute
    /\ UNCHANGED <<users, store, setting, utc_offset, oid_count, uuid_count,
                   issued, mails, last, process>>

(* Accounts with sessions: registration, login, deletion and reset_password *)
(* called with whatever token a client holds.                               *)
AccountNext ==
    \/ AccountTick
    \/ RegisterUser
    \/ AccountLogin
    \/ DeleteUser
    \/ ResetPassword

AccountSpec == AccountInit /\ [][AccountNext]_vars

(* Password recovery: registration, the two recovery requests, the          *)
(* background task that sends the email, and reset_password.                *)
RecoveryNext ==
    \/ AccountTick
    \/ RegisterUser
    \/ RecoverPasswordByEmail
    \/ RecoverPasswordByUsername
    \/ SendResetPasswordEmail
    \/ ResetPassword

RecoverySpec == AccountInit /\ [][RecoveryNext]_vars

(***************************************************************************)
(*                               properties                                *)
(***************************************************************************)
(* The password a registered user logs in with: the one whose hash the     *)
(* document holds.                                                         *)
PasswordOf(u) == u.password.secret

KnownUsername(username) == \E u \in users : u.username = username

WrongPassword(username, password) ==
    \E u \in users : u.username = username /\ PasswordOf(u) # password

(* A key that redis.get would find in the store s at this moment. *)
Holds(s, key, value) ==
    /\ key \in DOMAIN s
    /\ s[key].value = value
    /\ now < s[key].expires_at

C2_LoginFailure ==
    \A username \in LoginUsernames, password \in Passwords,
       put \in KvOutcomes :
        LET r == login(username, password, "ok", put) IN
        (~KnownUsername(username) \/ WrongPassword(username, password))
            => /\ r.status = 404
               /\ r.access_token = NoToken
               /\ r.refresh_token = NoToken
               /\ r.store = store
               /\ r.users = users
               /\ r.issued = issued

C2_Witness ==
    /\ last.op = "login" /\ last.status = 404
    /\ last.detail = "Incorrect password"
    /\ last.access_token = NoToken /\ last.refresh_token = NoToken

(* C3: the response to a failed Login is the same whether the username is   *)
(* unknown or the password is wrong.                                        *)
C3_FailuresIndistinguishable ==
    \A unknown \in LoginUsernames, known \in LoginUsernames,
       p1 \in Passwords, p2 \in Passwords :
        (~KnownUsername(unknown) /\ WrongPassword(known, p2))
            => Observed(login(unknown, p1, "ok", "ok"))
                   = Observed(login(known, p2, "ok", "ok"))

(* C4: when the put of the refresh token reports failure, Login ends 400    *)
(* and returns no token; and every refresh token a client holds from a      *)
(* Login was written to the store.                                          *)
C4_PersistenceFailure ==
    /\ \A u \in users, put \in KvOutcomes :
           LET r == login(u.username, PasswordOf(u), "ok", put) IN
           (put # "ok" \/ setting.refresh_token_expire_seconds <= 0)
               => /\ r.status = 400
                  /\ r.access_token = NoToken
                  /\ r.refresh_token = NoToken
                  /\ r.issued = issued
    /\ \A e \in issued :
           e.origin = "login_refresh"
               => \E key \in DOMAIN store : store[key].value = e.token

C4_Witness ==
    /\ last.op = "login" /\ last.status = 400
    /\ last.access_token = NoToken /\ last.refresh_token = NoToken
    /\ uuid_count > 0

(* The claims of a token without its expiry. *)
ExceptExp(claims) == [claims EXCEPT !.exp = 0]

(* The key refresh_token looks a validly signed token up at. *)
KeyOf(token) == <<token.claims.sub[2], ":", token.claims.jti>>

(* redis.get would find an entry at the key at this moment. *)
Live(key) == key \in DOMAIN store /\ now < store[key].expires_at

CredentialsInvalid(r) ==
    r.status = 403 /\ r.detail = "Could not validate credentials"

TokenExpired(r) == r.status = 401 /\ r.detail = "Token expired"

(* C5: for every registered user, with or without a middle name, Refresh    *)
(* with the refresh token of a successful Login, before that token expires, *)
(* ends 201 with a new access token whose claims equal the original claims  *)
(* in every field except exp.                                               *)
C5_RefreshConsistency ==
    \A e \in issued, frac \in BOOLEAN :
        (e.origin = "login_refresh" /\ now < e.token.claims.exp)
            => LET r == refresh_token(e.token, "ok", frac) IN
               /\ r.status = 201
               /\ r.access_token # NoToken
               /\ r.access_token.sig = "valid"
               /\ ExceptExp(r.access_token.claims) = ExceptExp(e.token.claims)

(* C6: Refresh with a token that cannot be decoded, or with a validly       *)
(* signed token that has no store entry at its key, ends 403 "Could not     *)
(* validate credentials", hands out no access token and leaves the store    *)
(* as it was; it never ends in an unhandled error.                          *)
C6_RefreshRejection ==
    \A token \in Presentable, get \in {"ok", "ConnectionError"},
       frac \in BOOLEAN :
        LET r == refresh_token(token, get, frac) IN
        (\/ jwt_decode(token).kind # "ok"
         \/ token.sig = "valid" /\ ~Live(KeyOf(token)))
            => /\ CredentialsInvalid(r)
               /\ r.access_token = NoToken
               /\ r.store = store
               /\ r.issued = issued

(* C7: in get_current_user and in Refresh alike, a token rejected because   *)
(* it is expired gives 401 "Token expired", and a token rejected for any    *)
(* other reason (signature, malformed claims, audience, issuer) gives 403   *)
(* "Could not validate credentials".                                        *)
C7_FailureKinds ==
    \A token \in Presentable, frac \in BOOLEAN :
        LET decoded == jwt_decode(token)
            g == get_current_user(token, "ok", frac)
            r == refresh_token(token, "ok", frac)
        IN  /\ decoded.kind = "ExpiredSignatureError"
                => TokenExpired(g) /\ TokenExpired(r)
            /\ decoded.kind \in {"JWTError", "JWTClaimsError"}
                => CredentialsInvalid(g) /\ CredentialsInvalid(r)
            /\ (decoded.kind = "ok" /\ ~TokenPayload_valid(decoded.payload))
                => CredentialsInvalid(g)

(* C8: no two tokens handed out (access and refresh tokens of Login, access *)
(* tokens of Refresh) carry the same jti.                                   *)
C8_JtiUnique ==
    \A a \in issued, b \in issued :
        a # b => a.token.claims.jti # b.token.claims.jti

(* C9: for positive access and refresh lifetimes, every token handed out by *)
(* Login or Refresh has exp > iat and iat >= nbf + 1.                       *)
C9_ValidityWindow ==
    (setting.ACCESS_TOKEN_EXPIRE_MINUTES > 0
        /\ setting.REFRESH_TOKEN_EXPIRE_MINUTES > 0)
        => \A e \in issued :
               LET c == e.token.claims IN
               c.exp > c.iat /\ c.iat >= c.nbf + 1

(* C10: the access and the refresh token of one Login carry the same claims *)
(* in every field except exp; the access token expires at issue time plus   *)
(* the access lifetime and the refresh token at issue time plus the refresh *)
(* lifetime, for every configured refresh lifetime, 0 included; the access  *)
(* token a client was handed is the one encoded before the refresh token.   *)
C10_TokenPair ==
    /\ \A u \in users :
           LET t == login_tokens(u, uuid4(uuid_count))
               a == t.access.encoded_jwt.claims
               r == t.refresh.encoded_jwt.claims
           IN  /\ ExceptExp(a) = ExceptExp(r)
               /\ a.exp = now + setting.ACCESS_TOKEN_EXPIRE_MINUTES
                                    * SecondsPerMinute
               /\ r.exp = now + setting.REFRESH_TOKEN_EXPIRE_MINUTES
                                    * SecondsPerMinute
    /\ \A e \in issued :
           e.origin = "login_access"
               => e.token.claims.exp
                      = e.at + setting.ACCESS_TOKEN_EXPIRE_MINUTES
                                   * SecondsPerMinute

(* C11: the key Refresh derives from a token (its sub without the          *)
(* "username:" prefix, ":", its jti) is the key userID ":" jti under which  *)
(* Login filed that token's refresh record, for every user id and jti; and  *)
(* the sub of every token handed out is "username:" followed by a user id.  *)
C11_KeyRoundTrip ==
    /\ \A u \in users, n \in 0..(Len(UUIDs) - 1) :
           LET t == login_tokens(u, uuid4(n)) IN
           /\ refresh_key(t.refresh.encoded_jwt.claims)
                  = login_key(u, uuid4(n))
           /\ refresh_key(t.access.encoded_jwt.claims)
                  = login_key(u, uuid4(n))
    /\ \A e \in issued :
           /\ \E i \in 1..Len(ObjectIds) :
                  e.token.claims.sub = <<"username:", ObjectIds[i]>>
           /\ e.origin = "login_refresh"
                  => /\ refresh_key(e.token.claims) \in DOMAIN store
                     /\ store[refresh_key(e.token.claims)].value = e.token

C11_Witness ==
    /\ last.op = "refresh_token" /\ last.status = 201
    /\ \E e \in issued :
           /\ e.origin = "login_refresh"
           /\ refresh_key(e.token.claims) \in DOMAIN store
           /\ last.access_token.claims.jti = e.token.claims.jti

(* The refresh token of the login a handed-out token descends from. *)
RefreshTokenOf(session) ==
    (CHOOSE e \in issued :
         e.origin = "login_refresh" /\ e.session = session).token

(* C13: a Refresh, successful or not, leaves the refresh-token store as it  *)
(* was (no write, no delete, no change of expiry), and after a Refresh the  *)
(* same refresh token is exchanged again for an access token as long as its *)
(* record exists.                                                           *)
C13_RefreshDoesNotRotate ==
    /\ \A token \in Presentable, get \in {"ok", "ConnectionError"},
          frac \in BOOLEAN :
           LET r == refresh_token(token, get, frac) IN
           r.store = store /\ r.users = users
    /\ \A e \in issued, frac \in BOOLEAN :
           (e.origin = "refresh_access"
               /\ Live(refresh_key(RefreshTokenOf(e.session).claims)))
               => refresh_token(RefreshTokenOf(e.session), "ok", frac).status
                      = 201

C13_Witness ==
    /\ last.op = "refresh_token" /\ last.status = 201
    /\ \E e \in issued :
           /\ e.origin = "refresh_access"
           /\ e.token = last.access_token
           /\ Live(refresh_key(RefreshTokenOf(e.session).claims))
           /\ store[refresh_key(RefreshTokenOf(e.session).claims)].value
                  = RefreshTokenOf(e.session)

(* C14: on every failure of the key-value backend (connection error,        *)
(* authentication failure, timeout, permission or data error) create_token  *)
(* returns a false value and get_token returns None, neither raises, and    *)
(* the callers answer as for "not persisted" (Login: 400) and "not found"   *)
(* (Refresh: 403 "Could not validate credentials").                         *)
C14_StoreFailsClosed ==
    \A exc \in RedisErrors :
        /\ \A u \in users :
               LET jti == uuid4(uuid_count)
                   token == [key |-> login_key(u, jti),
                             token |-> login_tokens(u, jti).refresh.encoded_jwt]
                   created == TokenService_create_token(token, exc)
                   r == login(u.username, PasswordOf(u), "ok", exc)
               IN  /\ ~created.inserted /\ ~created.raised
                   /\ r.status = 400
                   /\ r.access_token = NoToken /\ r.refresh_token = NoToken
        /\ \A key \in DOMAIN store :
               LET fetched == TokenService_get_token(key, exc) IN
               fetched.value = NoToken /\ ~fetched.raised
        /\ \A token \in Presentable, frac \in BOOLEAN :
               jwt_decode(token).kind = "ok"
                   => LET r == refresh_token(token, exc, frac) IN
                      CredentialsInvalid(r) /\ r.access_token = NoToken

C14_Witness ==
    /\ last.op = "login" /\ last.status = 400
    /\ last.detail = "Could not insert data in Authorization database"
    /\ setting.refresh_token_expire_seconds > 0
    /\ store = NoEntries

(* C12: Logout leaves the refresh-token store and the user records as they  *)
(* were, so after a Logout a Refresh with a refresh token of the same user  *)
(* still ends 201 for as long as its record is in the store.                *)
C12_LogoutKeepsRecords ==
    /\ \A token \in Presentable, db \in DbOutcomes, frac \in BOOLEAN :
           LET r == logout(token, db, frac) IN
           r.store = store /\ r.users = users /\ r.issued = issued
    /\ (last.op = "logout" /\ last.status = 302)
           => \A e \in issued, frac \in BOOLEAN :
                  (/\ e.origin = "login_refresh"
                   /\ e.token.claims.sub = <<"username:", last.user.id>>
                   /\ Live(refresh_key(e.token.claims)))
                      => refresh_token(e.token, "ok", frac).status = 201

C12_Witness ==
    /\ last.op = "logout" /\ last.status = 302
    /\ \E e \in issued :
           /\ e.origin = "login_refresh"
           /\ e.token.claims.sub = <<"username:", last.user.id>>
           /\ e.at < now
           /\ Live(refresh_key(e.token.claims))

(* C15: Refresh for a token with user id u and jti j ends 201 only if a     *)
(* successful Login filed a record at u ":" j and fewer seconds than the    *)
(* configured refresh lifetime have passed since that Login; once the       *)
(* record has expired, Refresh with that refresh token ends 403 "Could not  *)
(* validate credentials".                                                   *)
C15_RecordLifetime ==
    \A token \in Presentable, frac \in BOOLEAN :
        token.sig = "valid"
            => LET r == refresh_token(token, "ok", frac) IN
               /\ r.status = 201
                      => \E e \in issued :
                             /\ e.origin = "login_refresh"
                             /\ login_key([id |-> e.token.claims.sub[2]],
                                          e.token.claims.jti)
                                    = refresh_key(token.claims)
                             /\ now < e.at
                                    + setting.refresh_token_expire_seconds
               /\ (\E e \in issued :
                       /\ e.origin = "login_refresh"
                       /\ e.token = token
                       /\ now >= e.at + setting.refresh_token_expire_seconds)
                      => CredentialsInvalid(r)

(* C20: get_current_user and Refresh accept no token at a time now >= exp,  *)
(* the second now = exp included.                                           *)
C20_ExpiryBoundary ==
    \A token \in Presentable, frac \in BOOLEAN :
        (token.sig = "valid" /\ now >= token.claims.exp)
            => /\ get_current_user(token, "ok", frac).status # 200
               /\ refresh_token(token, "ok", frac).status # 201

(* An email task whose reset token has not reached its exp. *)
Unexpired(task) == now < task.token.claims.exp

(* C16: a reset token issued by a recovery request for an existing user and *)
(* presented to reset_password before its expiry with a new password is     *)
(* accepted: the answer is 200 "Password updated successfully", and the     *)
(* user with the token's email holds the hash of the new password, which    *)
(* the verifier of login accepts.                                           *)
C16_ResetRoundTrip ==
    \A i \in DOMAIN mails, password \in Passwords :
        (/\ Unexpired(mails[i])
         /\ \E u \in users : u.email = mails[i].email_to)
            => LET r == reset_password(mails[i].token, password, "ok") IN
               /\ r.status = 200
               /\ r.detail = "Password updated successfully"
               /\ \E u \in r.users :
                      /\ u.email = mails[i].email_to
                      /\ u.password = get_password_hash(password)
                      /\ verify_password(u.password, password) = "true"

(* A token that jwt.decode cannot accept: no JWT, a broken signature, or    *)
(* an exp that has passed.                                                  *)
InvalidResetToken(token) ==
    \/ token.sig # "valid"
    \/ token.claims.exp < now

(* C17: reset_password with an expired or otherwise invalid token answers   *)
(* 400 "Invalid token" whatever the user store holds or does, and leaves    *)
(* every stored password and every other record as it was.                  *)
C17_InvalidTokenRejected ==
    \A token \in ResetPresentable, password \in Passwords,
       db \in DbOutcomes :
        InvalidResetToken(token)
            => LET r == reset_password(token, password, db) IN
               /\ r.status = 400
               /\ r.detail = "Invalid token"
               /\ r.users = users
               /\ r.store = store
               /\ r.mails = mails

(* An expired token of a reset email, for a user that exists, was refused. *)
C17_Witness ==
    /\ last.op = "reset_password"
    /\ last.status = 400
    /\ \E i \in DOMAIN mails :
           /\ mails[i].token.claims.exp < now
           /\ \E u \in users : u.email = mails[i].email_to

(* C18: when reset_password is called with a token that decodes to an email *)
(* that no user has, the answer is 404 "User not found in the system." and  *)
(* no stored password changes.                                              *)
C18_VanishedUser ==
    \A token \in ResetPresentable, password \in Passwords :
        LET verified == verify_password_reset_token(token) IN
        (/\ ~verified.raised
         /\ verified.email # None
         /\ ~\E u \in users : u.email = verified.email)
            => LET r == reset_password(token, password, "ok") IN
               /\ r.status = 404
               /\ r.detail = "User not found in the system."
               /\ r.users = users

(* What one recovery request answers and leaves, given the address asked    *)
(* with, the users it names and whether the lookup went through.            *)
RecoveryAnswer(r, named, db) ==
    /\ r.users = users
    /\ r.store = store
    /\ named = {} => /\ r.status = 404
                     /\ r.mails = mails
    /\ (named # {} /\ db = "ok")
           => /\ r.status = 200
              /\ r.detail = "Password recovery email sent"
              /\ Len(r.mails) = Len(mails) + 1
              /\ \A i \in DOMAIN mails : r.mails[i] = mails[i]
              /\ \E u \in named : r.mails[Len(r.mails)].email_to = u.email
              /\ r.mails[Len(r.mails)].state = "scheduled"

RecoverOps == {"recover_password_by_email", "recover_password_by_username"}

(* C19: a recovery request by email or by username answers 404 and          *)
(* schedules nothing when no user has that email or username; when the      *)
(* user is found it schedules exactly one email task, addressed to that     *)
(* user's email, and answers "Password recovery email sent", an answer that *)
(* stands whatever becomes of the task; it changes no user document and no  *)
(* refresh-token record.                                                    *)
C19_RecoveryRequest ==
    /\ \A email \in RecoveryEmails, db \in DbOutcomes :
           RecoveryAnswer(recover_password_by_email(email, db),
                          {u \in users : u.email = email}, db)
    /\ \A username \in LoginUsernames, db \in DbOutcomes :
           RecoveryAnswer(recover_password_by_username(username, db),
                          {u \in users : u.username = username}, db)
    /\ (last.op \in RecoverOps /\ last.status = 200)
           => /\ last.detail = "Password recovery email sent"
              /\ mails # <<>>

(* A recovery request was acknowledged and its email then failed to go out. *)
C19_Witness ==
    /\ last.op \in RecoverOps
    /\ last.status = 200
    /\ mails[Len(mails)].state = "failed"

(* An answer of the ClaimsInvalid kind. *)
ClaimsInvalid(r) == r.status = 401 /\ r.detail = ClaimsDetail

(* A correctly signed token inside its validity window whose aud or iss is *)
(* not the configured one.                                                 *)
ForeignClaims(token) ==
    /\ token.sig = "valid"
    /\ token.claims.nbf <= now
    /\ now < token.claims.exp
    /\ \/ token.claims.aud # AuthPath
       \/ token.claims.iss # SERVER_HOST

(* C21: a correctly signed, unexpired token with a foreign aud or iss is    *)
(* refused with the ClaimsInvalid answer by get_current_user and by         *)
(* Refresh, is not decoded by decode_token, and authenticates nobody.       *)
C21_AudienceIssuerPinning ==
    \A token \in Presentable, db \in DbOutcomes, frac \in BOOLEAN :
        ForeignClaims(token)
            => /\ ClaimsInvalid(get_current_user(token, db, frac))
               /\ decode_token(token) = NonePayload
               /\ ClaimsInvalid(refresh_token(token, "ok", frac))

(***************************************************************************)
(*                     login requests handled concurrently                 *)
(***************************************************************************)
(* A login request suspends where it awaits a backend: at the user lookup  *)
(* (query.filter) and at the write of the refresh token (redis.setex).     *)
(* Its dependencies are resolved before its body starts.  pc names the     *)
(* step the request takes next, and status the answer once it is given.   *)
NewRequest(username, password) ==
    [pc |-> "start", username |-> username, password |-> password,
     redis |-> None, key |-> NoStr, access |-> NoToken, refresh |-> NoToken,
     status |-> 0]

(* The client objects Redis.from_url returns, in the order of creation. *)
Clients == <<"Redis-1", "Redis-2", "Redis-3", "Redis-4">>

(* A dependency that makes a client object for every request. *)
RedisDependency_call_per_request(attribute, created) ==
    [redis |-> Clients[created + 1], attribute |-> Clients[created + 1],
     created |-> created + 1]

(* RedisDependency.__call__ and init: when the attribute is None a client  *)
(* object is made by Redis.from_url and stored in it; awaiting the new     *)
(* object does not suspend, and the attribute is what the request is       *)
(* handed.                                                                 *)
RedisDependency_call(attribute, created) ==
    IF attribute = None
    THEN [redis |-> Clients[created + 1], attribute |-> Clients[created + 1],
          created |-> created + 1]
    ELSE [redis |-> attribute, attribute |-> attribute, created |-> created]

(* login up to the call of TokenService.create_token (lines 54-86): the    *)
(* answer when the request ends here, or the key and the two tokens.       *)
login_prepare(username, password, db) ==
    LET found_user == UsernameFilter_filter(username, db)
        ends(answer) ==
            [ready |-> FALSE, answer |-> answer, key |-> NoStr,
             access |-> NoToken, refresh |-> NoToken]
    IN
    IF found_user = DbRaise THEN ends(Unhandled("login"))
    ELSE IF found_user = NoUser
    THEN ends(Response("login", 404, "Invalid credentials"))
    ELSE LET verified == verify_password(found_user.password, password) IN
    IF verified = "raise" THEN ends(Unhandled("login"))
    ELSE IF verified = "false"
    THEN ends(Response("login", 404, "Incorrect password"))
    ELSE
    LET jti == uuid4(uuid_count)
        encoded == login_tokens(found_user, jti)
    IN  [ready |-> TRUE, answer |-> Response("login", 0, ""),
         key |-> login_key(found_user, jti),
         access |-> encoded.access.encoded_jwt,
         refresh |-> encoded.refresh.encoded_jwt]

(* login from the call of TokenService.create_token on (lines 87-97). *)
login_persist(request, put) ==
    LET token == [key |-> request.key, token |-> request.refresh]
        created == TokenService_create_token(token, put)
        token_set == created.inserted
        \* the number of the uuid4() call that made this login's jti
        session == CHOOSE n \in 1..Len(UUIDs) :
                       UUIDs[n] = request.refresh.claims.jti
        returned ==
            {Issued("login_access", request.access, session),
             Issued("login_refresh", request.refresh, session)}
    IN  IF created.raised THEN Unhandled("login")
        ELSE IF ~token_set
        THEN [Response("login", 400,
                       "Could not insert data in Authorization database")
                EXCEPT !.store = created.store]
        ELSE [Response("login", 200, "")
                EXCEPT !.access_token = request.access,
                       !.token_type = "bearer",
                       !.refresh_token = request.refresh,
                       !.store = created.store,
                       !.issued = issued \cup returned]

(* The forms clients log in with: each user's own password, and a wrong   *)
(* one.                                                                    *)
LoginForms ==
    {[username |-> "alice", password |-> "Passw0rd-1"],
     [username |-> "bob", password |-> "Passw0rd-2"],
     [username |-> "alice", password |-> "Passw0rd-2"]}

(* A login request starts: Depends(redis_dependency) is resolved, without  *)
(* suspending, and the body runs to its first await.                       *)
LoginArrives ==
    \E user \in LoginForms :
        \E d \in {RedisDependency_call(redis_dependency, connections)} :
            /\ Len(requests) < MaxLogins
            /\ requests' =
                   Append(requests,
                          [NewRequest(user.username, user.password)
                              EXCEPT !.pc = "lookup", !.redis = d.redis])
            /\ redis_dependency' = d.attribute
            /\ connections' = d.created
            /\ UNCHANGED <<users, store, setting, utc_offset, now, oid_count,
                           uuid_count, issued, mails, last>>

(* One request resumes after its user lookup and runs to the next await. *)
LoginLookup ==
    \E i \in {n \in DOMAIN requests : requests[n].pc = "lookup"},
       db \in DbOutcomes :
        \E p \in {login_prepare(requests[i].username, requests[i].password,
                                db)} :
            /\ IF p.ready
               THEN /\ requests' = [requests EXCEPT ![i].pc = "put",
                                                   ![i].key = p.key,
                                                   ![i].access = p.access,
                                                   ![i].refresh = p.refresh]
                    /\ uuid_count' = uuid_count + 1
               ELSE /\ requests' = [requests EXCEPT
                                       ![i].pc = "done",
                                       ![i].status = p.answer.status]
                    /\ uuid_count' = uuid_count
            /\ UNCHANGED <<users, store, setting, utc_offset, now, oid_count,
                           issued, mails, last, redis_dependency,
                           connections>>

(* One request resumes with the outcome of its setex and answers. *)
LoginPut ==
    \E i \in {n \in DOMAIN requests : requests[n].pc = "put"},
       put \in KvOutcomes :
        \E r \in {login_persist(requests[i], put)} :
            /\ requests' = [requests EXCEPT ![i].pc = "done",
                                            ![i].status = r.status]
            /\ store' = r.store
            /\ issued' = r.issued
            /\ UNCHANGED <<users, setting, utc_offset, now, oid_count,
                           uuid_count, mails, last, redis_dependency,
                           connections>>

(* The steps of concurrently handled logins, within one second of the     *)
(* clock.                                                                  *)
ConcurrentNext ==
    \/ RegisterUser
    \/ LoginArrives
    \/ LoginLookup
    \/ LoginPut

ConcurrentSpec == AccountInit /\ [][ConcurrentNext]_vars

(* The login requests that reached the store, and those that were answered *)
(* with a pair of tokens.                                                  *)
Keyed == {i \in DOMAIN requests : requests[i].key # NoStr}
Sessions == {i \in DOMAIN requests :
                requests[i].pc = "done" /\ requests[i].status = 200}

(* The refresh token of a session is one Refresh can take at this moment   *)
(* as far as the token itself goes: its claims make a TokenPayload and its *)
(* exp has not passed.                                                     *)
UsableByItself(token) ==
    /\ TokenPayload_valid(token.claims)
    /\ now < token.claims.exp

DbExceptions == DbOutcomes \ {"ok"}
KvExceptions == KvOutcomes \ {"ok"}

(* The store operations behind login's put, Refresh's get, the user lookup *)
(* of get_current_user, the recovery requests and reset_password: an       *)
(* exception of the backend gives the answer of "absent" or "not           *)
(* persisted".                                                             *)
WrappedOperationsStop ==
    /\ \A username \in LoginUsernames, password \in Passwords,
          put \in KvExceptions :
           LET r == login(username, password, "ok", put) IN
           /\ r.status # 500
           /\ login(username, password, "ok", "ok").status = 200
                  => r.status = 400
    /\ \A token \in Presentable, frac \in BOOLEAN, exc \in DbExceptions :
           LET r == get_current_user(token, exc, frac) IN
           /\ r.status # 500
           /\ get_current_user(token, "ok", frac).status = 200
                  => CredentialsInvalid(r)
    /\ \A token \in Presentable, frac \in BOOLEAN, exc \in KvExceptions :
           decode_token(token) # NonePayload
               => CredentialsInvalid(refresh_token(token, exc, frac))
    /\ \A email \in RecoveryEmails, exc \in DbExceptions :
           recover_password_by_email(email, exc).status = 404
    /\ \A username \in LoginUsernames, exc \in DbExceptions :
           recover_password_by_username(username, exc).status = 404
    /\ \A token \in ClientTokens, password \in Passwords,
          exc \in DbExceptions :
           reset_password(token, password, "ok").status = 200
               => reset_password(token, password, exc).status = 404

(* C24: in every session operation that touches the user store or the      *)
(* key-value store an exception of the backend is turned into None or      *)
(* False at the store operation, and the request ends with the answer of   *)
(* "absent" or "not persisted", never with an unhandled exception; for the *)
(* user lookup of login that answer is 404 "Invalid credentials".          *)
C24_BackendExceptionsStop ==
    /\ WrappedOperationsStop
    /\ \A username \in LoginUsernames, password \in Passwords,
          exc \in DbExceptions :
           LET r == login(username, password, exc, "ok") IN
           /\ r.status = 404
           /\ r.detail = "Invalid credentials"

(***************************************************************************)
(*                               update_user                               *)
(***************************************************************************)
(* A password field that holds the text itself: what '$set' writes when    *)
(* the request body carries a password.                                    *)
stored_as_given(password) == [scheme |-> "plaintext", secret |-> password]

(* UserService.update_user under handle_nosql_exceptions.  User.get gives  *)
(* None for an unknown id and None.update raises AttributeError, which the *)
(* decorator does not name.  update sends {'$set': data.dict()} to the     *)
(* collection as it is: the before_event action hash_password works on the *)
(* document object, not on the update query, so a password in the body is  *)
(* stored as given.  A username or email that another document holds      *)
(* violates a unique index: DuplicateKeyError, which the decorator turns   *)
(* into None.                                                              *)
UserService_update_user(user_id, data, db) ==
    IF db # "ok" THEN [user |-> NoUser, raised |-> FALSE, users |-> users]
    ELSE IF ~\E u \in users : u.id = user_id
    THEN [user |-> NoUser, raised |-> TRUE, users |-> users]
    ELSE
    LET user_updated == CHOOSE u \in users : u.id = user_id
        others == users \ {user_updated}
        renamed == [user_updated EXCEPT !.username = data.username,
                                        !.email = data.email]
        updated == IF data.password = None THEN renamed
                   ELSE [renamed EXCEPT
                            !.password = stored_as_given(data.password)]
    IN  IF \E u \in others :
               u.username = data.username \/ u.email = data.email
        THEN [user |-> NoUser, raised |-> FALSE, users |-> users]
        ELSE [user |-> updated, raised |-> FALSE,
              users |-> others \cup {updated}]

(* update_user: Depends(get_current_user) answers first. *)
update_user(token, user_id, data, auth_db, db, frac) ==
    LET current_user == get_current_user(token, auth_db, frac) IN
    IF current_user.status # 200
    THEN [current_user EXCEPT !.op = "update_user"]
    ELSE
    LET found_user == UserService_update_user(user_id, data, db) IN
    IF found_user.raised THEN Unhandled("update_user")
    ELSE IF found_user.user = NoUser
    THEN Response("update_user", 404, "User not found in the system.")
    ELSE [Response("update_user", 200, "")
            EXCEPT !.user = [username |-> found_user.user.username,
                             email |-> found_user.user.email],
                   !.users = found_user.users]

(* Bodies of update requests: a new password, nothing new for alice, and a *)
(* new username and email.                                                 *)
UserUpdateInputs ==
    {[username |-> "alice", email |-> "alice@example.com",
      password |-> "Passw0rd-2"],
     [username |-> "alice", email |-> "alice@example.com",
      password |-> None],
     [username |-> "carol", email |-> "carol@example.com",
      password |-> None]}

UpdateUser ==
    \E token \in {Garbage} \cup ClientTokens,
       user_id \in {ObjectIds[i] : i \in 1..MaxOid},
       data \in UserUpdateInputs, backend \in DeleteBackends,
       frac \in Micros :
        \E r \in {update_user(token, user_id, data, backend.auth_db,
                              backend.db, frac)} : Apply(r)

(* Accounts that are registered, logged in to, updated, deleted, and whose *)
(* password is reset.                                                      *)
UsersNext ==
    \/ AccountTick
    \/ RegisterUser
    \/ AccountLogin
    \/ UpdateUser
    \/ DeleteUser
    \/ ResetPassword

UsersSpec == AccountInit /\ [][UsersNext]_vars

(* The stored password field is one pwd_cxt can identify as a bcrypt hash. *)
RecognisedHash(hashed_password) == hashed_password.scheme = "bcrypt"

(* C25: when the stored password of a user is not in a recognised hash      *)
(* format, login with any password ends with the answer of invalid          *)
(* credentials (404) and not in an unhandled error.                         *)
C25_MalformedHash ==
    \A u \in users, password \in Passwords, put \in KvOutcomes :
        ~RecognisedHash(u.password)
            => LET r == login(u.username, password, "ok", put) IN
               /\ r.status = 404
               /\ r.detail \in {"Invalid credentials", "Incorrect password"}

(* C30: after any sequence of register_user, update_user and                *)
(* reset_password the stored password of every user is the hash of the      *)
(* password last set for that user, never the text itself, so login         *)
(* succeeds with that password and with no other.                           *)
C30_StoredPasswordsAreHashes ==
    \A u \in users :
        /\ u.password = get_password_hash(PasswordOf(u))
        /\ u.password # stored_as_given(PasswordOf(u))
        /\ \A password \in Passwords :
               login(u.username, password, "ok", "ok").status
                   = IF password = PasswordOf(u) THEN 200 ELSE 404

(* C27: whenever get_current_user accepts a token, the user it returns is   *)
(* the one whose id the sub claim of the token carries, whatever            *)
(* registrations, updates and deletions happened since the token was made.  *)
C27_TokenUserBinding ==
    \A token \in ClientTokens, db \in DbOutcomes, frac \in BOOLEAN :
        LET r == get_current_user(token, db, frac) IN
        r.status = 200 => <<"username:", r.user.id>> = token.claims.sub

(* The access tokens handed out by login and by refresh_token. *)
AccessTokens ==
    {e \in issued : e.origin \in {"login_access", "refresh_access"}}

(* C26: every access token that login or refresh_token handed out is        *)
(* accepted by get_current_user at every time before its exp and resolves   *)
(* to the user who logged in, as long as that user exists under the same    *)
(* username, for users with and without a middle name.                      *)
C26_AccessTokensUsable ==
    \A e \in AccessTokens, frac \in BOOLEAN :
        (/\ now < e.token.claims.exp
         /\ \E u \in users :
                /\ <<"username:", u.id>> = e.token.claims.sub
                /\ u.username = e.token.claims.preferred_username)
            => LET r == get_current_user(e.token, "ok", frac) IN
               /\ r.status = 200
               /\ <<"username:", r.user.id>> = e.token.claims.sub

(* C28: get_current_user accepts no token that was issued as a refresh      *)
(* token, and Refresh hands out no access token in exchange for a token     *)
(* that was issued as an access token.                                      *)
C28_ScopeSeparation ==
    \A e \in issued, frac \in BOOLEAN :
        /\ e.origin = "login_refresh"
               => get_current_user(e.token, "ok", frac).status # 200
        /\ e.origin \in {"login_access", "refresh_access"}
               => refresh_token(e.token, "ok", frac).status # 201

(* C29: reset_password with an access token or a refresh token that login   *)
(* issued answers 400 "Invalid token" and changes no stored password.       *)
C29_SessionTokensAreNoResetTokens ==
    \A e \in issued, password \in Passwords, db \in DbOutcomes :
        LET r == reset_password(e.token, password, db) IN
        /\ r.status = 400
        /\ r.detail = "Invalid token"
        /\ r.users = users

====
